---- MODULE Spec2Model ----
(***************************************************************************)
(* K8sPipelineGenerator (src/k8s-pipeline-generator.js) as a state machine. *)
(*                                                                         *)
(* The state is one generator instance (self, the JS `this`), the output   *)
(* file tree that saveToFiles writes into (fs), and the completion of the  *)
(* last call made on the generator (ret).  kept is what a caller holds on   *)
(* to from an earlier render call: Keep sets it, an add call clears it, and *)
(* a later render or save call marks it as earlier than that call.          *)
(*                                                                         *)
(* JS strings are TLA+ strings; template literals are \o concatenations.   *)
(* Objects handed to yaml.dump are trees of tagged nodes (Str, Num, Bool,   *)
(* Map, List); yaml.dump flattens a tree to its lines.                      *)
(***************************************************************************)
EXTENDS Integers, Sequences, FiniteSets, TLC

VARIABLES self, fs, ret, kept

vars == <<self, fs, ret, kept>>

\* Longest stage sequence the model builds.
MaxStages == 2

\* The stages added before a client that keeps outputs renders again.
MaxObsStages == 1

-----------------------------------------------------------------------------
(* JS values *)

\* An argument or option that the caller left out.
undefined == "<undefined>"

\* An omitted object-valued argument.
undefinedObj == [t |-> "u"]

Str(s) == [t |-> "s", v |-> s]
Num(n) == [t |-> "n", v |-> n]
Bool(b) == [t |-> "b", v |-> b]
Map(entries) == [t |-> "m", v |-> entries]
List(items) == [t |-> "l", v |-> items]

\* Parameter default: `x = d` in a JS signature applies to undefined only.
Default(x, d) == IF x = undefined THEN d ELSE x

\* `x || d`: the default replaces every falsy string, the empty one included.
OrElse(x, d) == IF x = undefined \/ x = "" THEN d ELSE x

\* ${x} in a template literal: String(x).
Interpolate(x) == IF x = undefined THEN "undefined" ELSE x

\* Index of the first occurrence of the one-character string c in s, 0 if none.
IndexOf(s, c) ==
  LET I == {i \in 1..Len(s) : SubSeq(s, i, i) = c}
  IN IF I = {} THEN 0 ELSE CHOOSE i \in I : \A j \in I : i <= j

\* Index of the last occurrence of c in s, 0 if none.
LastIndexOf(s, c) ==
  LET I == {i \in 1..Len(s) : SubSeq(s, i, i) = c}
  IN IF I = {} THEN 0 ELSE CHOOSE i \in I : \A j \in I : i >= j

\* s.split(c)[0]
SplitFirst(s, c) ==
  IF IndexOf(s, c) = 0 THEN s ELSE SubSeq(s, 1, IndexOf(s, c) - 1)

\* s.includes(sub)
Includes(s, sub) ==
  \E i \in 1..(Len(s) - Len(sub) + 1) : SubSeq(s, i, i + Len(sub) - 1) = sub

\* Number of (possibly overlapping) occurrences of sub in s.
Occurrences(s, sub) ==
  Cardinality({i \in 1..(Len(s) - Len(sub) + 1) : SubSeq(s, i, i + Len(sub) - 1) = sub})

\* array.join(sep)
RECURSIVE Join(_, _)
Join(arr, sep) ==
  IF arr = <<>> THEN ""
  ELSE IF Len(arr) = 1 THEN arr[1]
  ELSE arr[1] \o sep \o Join(Tail(arr), sep)

\* array.includes(x)
ArrayIncludes(arr, x) == \E i \in 1..Len(arr) : arr[i] = x

-----------------------------------------------------------------------------
(* constructor *)

Opt(options, field) == IF field \in DOMAIN options THEN options[field] ELSE undefined

K8sPipelineGenerator(options) ==
  LET projectName == OrElse(Opt(options, "projectName"), "k8s-app")
  IN [ projectName |-> projectName,
       repoUrl |-> OrElse(Opt(options, "repoUrl"), ""),
       branch |-> OrElse(Opt(options, "branch"), "main"),
       namespace |-> OrElse(Opt(options, "namespace"), "default"),
       dockerRegistry |-> OrElse(Opt(options, "dockerRegistry"), ""),
       deploymentConfig |-> IF "deploymentConfig" \in DOMAIN options
                            THEN options.deploymentConfig ELSE Map(<<>>),
       stages |-> <<>>,
       environments |-> <<"dev", "staging", "prod">>,
       dockerfilePath |-> OrElse(Opt(options, "dockerfilePath"), "./Dockerfile"),
       registry |-> IF "registry" \in DOMAIN options
                    THEN options.registry
                    ELSE [aws |-> [region |-> "us-east-1",
                                   accountId |-> "123456789012",
                                   ecrRepository |-> projectName \o "-repo"]] ]

\* The configuration fields of a generator: everything but the stage sequence.
Config(this) == [f \in DOMAIN this \ {"stages"} |-> this[f]]

-----------------------------------------------------------------------------
(* completions: what a call leaves behind *)

\* The call returned val and left the generator as this.
Return(this, val) == [this |-> this, ok |-> TRUE, val |-> val]

\* The call threw; this is the generator as the throw left it.
Throw(this, err) == [this |-> this, ok |-> FALSE, val |-> err]

-----------------------------------------------------------------------------
(* Stage Model *)

\* addStage putting the stage in place of the ones held.
addStageReplacing(this, stage) ==
  Return([this EXCEPT !.stages = <<stage>>], "this")

addStage(this, stage) ==
  Return([this EXCEPT !.stages = Append(@, stage)], "this")

addTestStage(this, command, image) ==
  addStage(this,
    [ name |-> "test",
      steps |-> << [ name |-> "run-tests",
                     image |-> Default(image, "node:14"),
                     command |-> <<"sh", "-c", Default(command, "npm test")>> ] >> ])

addBuildStage(this, buildCommand, image) ==
  addStage(this,
    [ name |-> "build",
      steps |-> << [ name |-> "build-app",
                     image |-> Default(image, "node:14"),
                     command |-> <<"sh", "-c", Default(buildCommand, "npm run build")>> ] >> ])

\* addDockerBuildStage pushing the image under its local name.
addDockerBuildStageLocalPush(this, imageName, tag) ==
  LET imageTag == this.dockerRegistry \o "/" \o Interpolate(imageName) \o ":"
                    \o Default(tag, "latest")
  IN addStage(this,
    [ name |-> "docker-build",
      steps |-> << [ name |-> "build-and-push",
                     image |-> "docker:20.10.12-dind",
                     command |-> << "sh", "-c",
                        "docker build -t " \o imageTag \o " -f " \o this.dockerfilePath
                          \o " . && docker push " \o Interpolate(imageName) \o ":"
                          \o Default(tag, "latest") >>,
                     env |-> << [name |-> "DOCKER_HOST", value |-> "tcp://localhost:2375"] >> ] >> ])

addDockerBuildStage(this, imageName, tag) ==
  LET imageTag == this.dockerRegistry \o "/" \o Interpolate(imageName) \o ":"
                    \o Default(tag, "latest")
  IN addStage(this,
    [ name |-> "docker-build",
      steps |-> << [ name |-> "build-and-push",
                     image |-> "docker:20.10.12-dind",
                     command |-> << "sh", "-c",
                        "docker build -t " \o imageTag \o " -f " \o this.dockerfilePath
                          \o " . && docker push " \o imageTag >>,
                     env |-> << [name |-> "DOCKER_HOST", value |-> "tcp://localhost:2375"] >> ] >> ])

\* addDeployStage appending the stage before it validates the environment.
addDeployStageAppendFirst(this, environment, resources) ==
  LET env == Default(environment, "dev")
      added == addStage(this,
       [ name |-> "deploy-to-" \o env,
         steps |-> << [ name |-> "kubectl-apply",
                        image |-> "bitnami/kubectl:latest",
                        command |-> <<"sh", "-c",
                                      "kubectl apply -f /workspace/k8s/${ENVIRONMENT}/">> ] >>,
         env |-> << [name |-> "ENVIRONMENT", value |-> env] >> ])
  IN IF ~ArrayIncludes(this.environments, env)
     THEN Throw(added.this, "Environment " \o env \o " is not valid. Use one of: "
                              \o Join(this.environments, ", "))
     ELSE added

addDeployStage(this, environment, resources) ==
  LET env == Default(environment, "dev")
  IN IF ~ArrayIncludes(this.environments, env)
     THEN Throw(this, "Environment " \o env \o " is not valid. Use one of: "
                        \o Join(this.environments, ", "))
     ELSE addStage(this,
       [ name |-> "deploy-to-" \o env,
         steps |-> << [ name |-> "kubectl-apply",
                        image |-> "bitnami/kubectl:latest",
                        command |-> <<"sh", "-c",
                                      "kubectl apply -f /workspace/k8s/${ENVIRONMENT}/">> ] >>,
         env |-> << [name |-> "ENVIRONMENT", value |-> env] >> ])

-----------------------------------------------------------------------------
(* Jenkins Renderer.  The Jenkinsfile text is the sequence of its lines. *)

JenkinsfileHead(this) ==
  << "",
     "pipeline {",
     "  agent {",
     "    kubernetes {",
     "      yaml '''",
     "apiVersion: v1",
     "kind: Pod",
     "metadata:",
     "  labels:",
     "    app: " \o this.projectName \o "-pipeline",
     "spec:",
     "  containers:",
     "  - name: jnlp",
     "    image: jenkins/inbound-agent:4.11.2-4",
     "  - name: docker",
     "    image: docker:20.10.12-dind",
     "    securityContext:",
     "      privileged: true",
     "    volumeMounts:",
     "    - name: docker-socket",
     "      mountPath: /var/run/docker.sock",
     "  - name: kubectl",
     "    image: bitnami/kubectl:latest",
     "    command:",
     "    - cat",
     "    tty: true",
     "  volumes:",
     "  - name: docker-socket",
     "    hostPath:",
     "      path: /var/run/docker.sock",
     "      type: Socket",
     "'''",
     "    }",
     "  }",
     "  ",
     "  environment {",
     "    PROJECT_NAME = \"" \o this.projectName \o "\"",
     "    DOCKER_REGISTRY = \"" \o this.dockerRegistry \o "\"",
     "    NAMESPACE = \"" \o this.namespace \o "\"",
     "    GIT_BRANCH = \"" \o this.branch \o "\"",
     "  }",
     "  ",
     "  stages {" >>

JenkinsfileCheckout ==
  << "",
     "    stage('Checkout') {",
     "      steps {",
     "        checkout scm",
     "      }",
     "    }" >>

\* Evaluating the stage template throws a TypeError: steps[0] is undefined, or
\* its image or its command is.
StageThrows(stage) ==
  \/ stage.steps = <<>>
  \/ "image" \notin DOMAIN stage.steps[1]
  \/ "command" \notin DOMAIN stage.steps[1]

\* array[i] of JS (0-based), interpolated.
At(arr, i) == IF i + 1 <= Len(arr) THEN arr[i + 1] ELSE "undefined"

\* The stage block rendered from the last step of the stage.
JenkinsfileStageOfLastStep(stage) ==
  << "",
     "    stage('" \o Interpolate(Opt(stage, "name")) \o "') {",
     "      steps {",
     "        container('" \o SplitFirst(stage.steps[Len(stage.steps)].image, ":") \o "') {",
     "          sh \"\"\"",
     "            " \o At(stage.steps[Len(stage.steps)].command, 2),
     "          \"\"\"",
     "        }",
     "      }",
     "    }" >>

JenkinsfileStage(stage) ==
  << "",
     "    stage('" \o Interpolate(Opt(stage, "name")) \o "') {",
     "      steps {",
     "        container('" \o SplitFirst(stage.steps[1].image, ":") \o "') {",
     "          sh \"\"\"",
     "            " \o At(stage.steps[1].command, 2),
     "          \"\"\"",
     "        }",
     "      }",
     "    }" >>

JenkinsfileTail ==
  << "",
     "  }",
     "  ",
     "  post {",
     "    always {",
     "      cleanWs()",
     "    }",
     "    success {",
     "      echo 'Pipeline completed successfully!'",
     "    }",
     "    failure {",
     "      echo 'Pipeline failed!'",
     "    }",
     "  }",
     "}" >>

\* The stage blocks with each stage name rendered once.
RECURSIVE JenkinsfileStagesOncePerName(_)
JenkinsfileStagesOncePerName(stages) ==
  IF stages = <<>> THEN <<>>
  ELSE LET rest == Tail(stages)
       IN IF \E i \in 1..Len(rest) : Opt(rest[i], "name") = Opt(Head(stages), "name")
          THEN JenkinsfileStagesOncePerName(rest)
          ELSE JenkinsfileStage(Head(stages)) \o JenkinsfileStagesOncePerName(rest)

\* this.stages.forEach(stage => jenkinsfileContent += ...)
RECURSIVE JenkinsfileStages(_)
JenkinsfileStages(stages) ==
  IF stages = <<>> THEN <<>>
  ELSE JenkinsfileStage(Head(stages)) \o JenkinsfileStages(Tail(stages))

\* generateJenkinsfile taking the stages off this.stages as it renders them.
generateJenkinsfileConsuming(this) ==
  IF \E i \in 1..Len(this.stages) : StageThrows(this.stages[i])
  THEN Throw(this, "TypeError")
  ELSE Return([this EXCEPT !.stages = <<>>],
              JenkinsfileHead(this) \o JenkinsfileCheckout
                \o JenkinsfileStages(this.stages) \o JenkinsfileTail)

generateJenkinsfile(this) ==
  IF \E i \in 1..Len(this.stages) : StageThrows(this.stages[i])
  THEN Throw(this, "TypeError")
  ELSE Return(this, JenkinsfileHead(this) \o JenkinsfileCheckout
                      \o JenkinsfileStages(this.stages) \o JenkinsfileTail)

-----------------------------------------------------------------------------
(* yaml.dump: a document tree to YAML text.  The text is the sequence of its  *)
(* scalar lines, each the path of a scalar in the document and the scalar's   *)
(* text; a string that is itself a YAML text (Text) is dumped line by line.   *)

Text(lines) == [t |-> "y", v |-> lines]

\* A list of strings.
Strs(arr) == List([i \in 1..Len(arr) |-> Str(arr[i])])

Sub(path, key) == IF path = "" THEN key ELSE path \o "." \o key

RECURSIVE YamlLines(_, _)
YamlLines(node, path) ==
  LET RECURSIVE Entries(_)
      Entries(es) ==
        IF es = <<>> THEN <<>>
        ELSE YamlLines(es[1][2], Sub(path, es[1][1])) \o Entries(Tail(es))
      RECURSIVE Items(_, _)
      Items(xs, i) ==
        IF xs = <<>> THEN <<>>
        ELSE YamlLines(xs[1], path \o "[" \o ToString(i) \o "]") \o Items(Tail(xs), i + 1)
  IN CASE node.t = "s" -> << [k |-> path, v |-> node.v] >>
       [] node.t = "n" -> << [k |-> path, v |-> ToString(node.v)] >>
       [] node.t = "b" -> << [k |-> path, v |-> IF node.v THEN "true" ELSE "false"] >>
       [] node.t = "y" -> [i \in 1..Len(node.v) |->
                             [k |-> path \o "|" \o node.v[i].k, v |-> node.v[i].v]]
       [] node.t = "m" -> IF node.v = <<>> THEN << [k |-> path, v |-> "{}"] >>
                          ELSE Entries(node.v)
       [] node.t = "l" -> IF node.v = <<>> THEN << [k |-> path, v |-> "[]"] >>
                          ELSE Items(node.v, 0)

YamlDump(node) == YamlLines(node, "")

\* The text of the scalar at path in a dumped document ("" when there is none).
YamlAt(lines, path) ==
  LET I == {i \in 1..Len(lines) : lines[i].k = path}
  IN IF I = {} THEN "" ELSE lines[CHOOSE i \in I : TRUE].v

\* The dumped lines below path, in order, with path stripped.
YamlUnder(lines, path) ==
  LET n == Len(path)
      F(l) == Len(l.k) > n /\ SubSeq(l.k, 1, n) = path
      RECURSIVE Pick(_)
      Pick(ls) ==
        IF ls = <<>> THEN <<>>
        ELSE IF F(ls[1])
             THEN << [k |-> SubSeq(ls[1].k, n + 1, Len(ls[1].k)), v |-> ls[1].v] >>
                    \o Pick(Tail(ls))
             ELSE Pick(Tail(ls))
  IN Pick(lines)

-----------------------------------------------------------------------------
(* Build Specification Renderer *)

\* The backquote of the shell commands; a TLA+ string cannot hold the character
\* itself, so the model writes it as this one-character stand-in.
BQ == "'"

\* Line 475 is written as a single-quoted string around ${...} references; the
\* model takes the command the line is written to produce.
generateBuildSpec(this) ==
  LET region == this.registry.aws.region
      accountId == this.registry.aws.accountId
      ecrRepo == this.registry.aws.ecrRepository
      repoUri == accountId \o ".dkr.ecr." \o region \o ".amazonaws.com/" \o ecrRepo
  IN Return(this, YamlDump(Map(<<
       <<"version", Str("0.2")>>,
       <<"phases", Map(<<
          <<"pre_build", Map(<< <<"commands", Strs(<<
             "echo Logging in to Amazon ECR...",
             "aws ecr get-login-password --region " \o region
               \o " | docker login --username AWS --password-stdin "
               \o accountId \o ".dkr.ecr." \o region \o ".amazonaws.com",
             "echo Checking if repository exists...",
             "aws ecr describe-repositories --repository-names " \o ecrRepo
               \o " || aws ecr create-repository --repository-name " \o ecrRepo,
             "COMMIT_HASH=$(echo $CODEBUILD_RESOLVED_SOURCE_VERSION | cut -c 1-7)",
             "IMAGE_TAG=${COMMIT_HASH:=latest}" >>)>> >>)>>,
          <<"build", Map(<< <<"commands", Strs(<<
             "echo Build started on " \o BQ \o "date" \o BQ,
             "echo Building the Docker image: " \o repoUri \o ":$IMAGE_TAG",
             "docker build -t " \o repoUri \o ":$IMAGE_TAG -f " \o this.dockerfilePath \o " .",
             "docker tag " \o repoUri \o ":$IMAGE_TAG " \o repoUri \o ":latest" >>)>> >>)>>,
          <<"post_build", Map(<< <<"commands", Strs(<<
             "echo Build completed on " \o BQ \o "date" \o BQ,
             "echo Pushing the Docker image...",
             "docker push " \o repoUri \o ":$IMAGE_TAG",
             "docker push " \o repoUri \o ":latest",
             "echo Writing artifact files...",
             "echo \"{\"ImageURI\":\"" \o repoUri \o ":$IMAGE_TAG\"}\" > imageDefinition.json",
             "echo Generating Kubernetes manifests...",
             "mkdir -p kubernetes/",
             "envsubst < k8s/deployment.yaml > kubernetes/deployment.yaml",
             "envsubst < k8s/service.yaml > kubernetes/service.yaml" >>)>> >>)>> >>)>>,
       <<"artifacts", Map(<< <<"files", Strs(<<
          "imageDefinition.json",
          "appspec.yaml",
          "kubernetes/**/*",
          "k8s/**/*" >>)>> >>)>> >>)))

generateDeployBuildSpec(this) ==
  Return(this, YamlDump(Map(<<
    <<"version", Str("0.2")>>,
    <<"phases", Map(<<
       <<"install", Map(<< <<"commands", Strs(<<
          "echo Installing kubectl...",
          "curl -o kubectl https://amazon-eks.s3.us-west-2.amazonaws.com/1.21.2/2021-07-05/bin/linux/amd64/kubectl",
          "chmod +x ./kubectl",
          "mv ./kubectl /usr/local/bin/kubectl" >>)>> >>)>>,
       <<"pre_build", Map(<< <<"commands", Strs(<<
          "echo Configuring kubectl...",
          "aws eks update-kubeconfig --name ${EKS_CLUSTER_NAME} --region ${AWS_REGION}" >>)>> >>)>>,
       <<"build", Map(<< <<"commands", Strs(<<
          "echo Deployment started on " \o BQ \o "date" \o BQ,
          "echo Updating image in Kubernetes manifests...",
          "IMAGE_URI=$(cat imageDefinition.json | jq -r '.ImageURI')",
          "sed -i \"s|IMAGE_PLACEHOLDER|$IMAGE_URI|g\" kubernetes/deployment.yaml",
          "echo Applying Kubernetes manifests...",
          "kubectl apply -f kubernetes/deployment.yaml -n ${NAMESPACE}",
          "kubectl apply -f kubernetes/service.yaml -n ${NAMESPACE}" >>)>> >>)>>,
       <<"post_build", Map(<< <<"commands", Strs(<<
          "echo Deployment completed on " \o BQ \o "date" \o BQ,
          "kubectl get pods -n ${NAMESPACE}",
          "kubectl get services -n ${NAMESPACE}" >>)>> >>)>> >>)>> >>)))

-----------------------------------------------------------------------------
(* Manifest Renderer *)

\* The image field of the Deployment's container.
ContainerImageOfArgs(imageName, tag) == Interpolate(imageName) \o ":" \o Default(tag, "latest")

ContainerImage(imageName, tag) == "IMAGE_PLACEHOLDER"

DefaultResources == Map(<< <<"cpu", Str("100m")>>, <<"memory", Str("128Mi")>> >>)

generateK8sDeployment(this, imageName, tag, resources) ==
  LET requests == IF resources = undefinedObj THEN DefaultResources ELSE resources
      deployment == Map(<<
        <<"apiVersion", Str("apps/v1")>>,
        <<"kind", Str("Deployment")>>,
        <<"metadata", Map(<<
           <<"name", Str(this.projectName)>>,
           <<"namespace", Str(this.namespace)>>,
           <<"labels", Map(<< <<"app", Str(this.projectName)>> >>)>> >>)>>,
        <<"spec", Map(<<
           <<"replicas", Num(1)>>,
           <<"selector", Map(<<
              <<"matchLabels", Map(<< <<"app", Str(this.projectName)>> >>)>> >>)>>,
           <<"template", Map(<<
              <<"metadata", Map(<<
                 <<"labels", Map(<< <<"app", Str(this.projectName)>> >>)>> >>)>>,
              <<"spec", Map(<<
                 <<"containers", List(<< Map(<<
                    <<"name", Str(this.projectName)>>,
                    <<"image", Str(ContainerImage(imageName, tag))>>,
                    <<"imagePullPolicy", Str("Always")>>,
                    <<"ports", List(<< Map(<< <<"containerPort", Num(8080)>> >>) >>)>>,
                    <<"resources", Map(<< <<"requests", requests>> >>)>> >>) >>)>>
              >>)>> >>)>> >>)>> >>)
  IN Return(this, YamlDump(deployment))

generateK8sService(this, port, targetPort, type) ==
  LET port_ == IF port = undefinedObj THEN Num(80) ELSE port
      targetPort_ == IF targetPort = undefinedObj THEN Num(8080) ELSE targetPort
      service == Map(<<
        <<"apiVersion", Str("v1")>>,
        <<"kind", Str("Service")>>,
        <<"metadata", Map(<<
           <<"name", Str(this.projectName)>>,
           <<"namespace", Str(this.namespace)>>,
           <<"labels", Map(<< <<"app", Str(this.projectName)>> >>)>> >>)>>,
        <<"spec", Map(<<
           <<"type", Str(Default(type, "ClusterIP"))>>,
           <<"ports", List(<< Map(<<
              <<"port", port_>>,
              <<"targetPort", targetPort_>>,
              <<"protocol", Str("TCP")>> >>) >>)>>,
           <<"selector", Map(<< <<"app", Str(this.projectName)>> >>)>> >>)>> >>)
  IN Return(this, YamlDump(service))

-----------------------------------------------------------------------------
(* Cloud Pipeline Renderer *)

\* url.replace(/^.*github.com\//, ''): the longest prefix that ends in "github",
\* any one character, "com/" is dropped; without a match the url is returned.
StripGithub(url) ==
  LET I == {i \in 1..(Len(url) - 10) :
              /\ SubSeq(url, i, i + 5) = "github"
              /\ SubSeq(url, i + 7, i + 10) = "com/"}
  IN IF I = {} THEN url
     ELSE SubSeq(url, (CHOOSE i \in I : \A j \in I : i >= j) + 11, Len(url))

GetAtt(resource, attr) == Map(<< <<"Fn::GetAtt", Strs(<<resource, attr>>)>> >>)

Ref(resource) == Map(<< <<"Ref", Str(resource)>> >>)

AssumeRolePolicy(service) ==
  Map(<< <<"Version", Str("2012-10-17")>>,
         <<"Statement", List(<< Map(<<
            <<"Effect", Str("Allow")>>,
            <<"Principal", Map(<< <<"Service", Str(service)>> >>)>>,
            <<"Action", Str("sts:AssumeRole")>> >>) >>)>> >>)

CodeBuildActionType ==
  Map(<< <<"Category", Str("Build")>>, <<"Owner", Str("AWS")>>,
         <<"Provider", Str("CodeBuild")>>, <<"Version", Str("1")>> >>)

\* A Stages list with one more pipeline stage for each stage of the Stage Model.
PipelineStagesOfModel(this) ==
  List([i \in 1..Len(this.stages) |->
          Map(<< <<"Name", Str(Interpolate(Opt(this.stages[i], "name")))>>,
                 <<"Actions", List(<<>>)>> >>)])

\* The Stages list of the Pipeline resource.
PipelineStages(this) ==
  List(<<
    Map(<< <<"Name", Str("Source")>>,
           <<"Actions", List(<< Map(<<
              <<"Name", Str("Source")>>,
              <<"ActionTypeId", Map(<<
                 <<"Category", Str("Source")>>, <<"Owner", Str("AWS")>>,
                 <<"Provider", Str("CodeStarSourceConnection")>>,
                 <<"Version", Str("1")>> >>)>>,
              <<"Configuration", Map(<<
                 <<"ConnectionArn", Str("{{CONNECTION_ARN}}")>>,
                 <<"FullRepositoryId", Str(StripGithub(this.repoUrl))>>,
                 <<"BranchName", Str(this.branch)>> >>)>>,
              <<"OutputArtifacts", List(<< Map(<< <<"Name", Str("SourceCode")>> >>) >>)>>
           >>) >>)>> >>),
    Map(<< <<"Name", Str("Build")>>,
           <<"Actions", List(<< Map(<<
              <<"Name", Str("BuildAndPushDockerImage")>>,
              <<"ActionTypeId", CodeBuildActionType>>,
              <<"Configuration", Map(<< <<"ProjectName", Ref("DockerBuildProject")>> >>)>>,
              <<"InputArtifacts", List(<< Map(<< <<"Name", Str("SourceCode")>> >>) >>)>>,
              <<"OutputArtifacts", List(<< Map(<< <<"Name", Str("BuildOutput")>> >>) >>)>>
           >>) >>)>> >>),
    Map(<< <<"Name", Str("Deploy")>>,
           <<"Actions", List(<< Map(<<
              <<"Name", Str("DeployToKubernetes")>>,
              <<"ActionTypeId", CodeBuildActionType>>,
              <<"Configuration", Map(<< <<"ProjectName", Ref("KubernetesDeployProject")>> >>)>>,
              <<"InputArtifacts", List(<< Map(<< <<"Name", Str("BuildOutput")>> >>) >>)>>
           >>) >>)>> >>) >>)

generateAwsCodePipeline(this) ==
  LET pipelineName == this.projectName \o "-pipeline"
      pipeline == Map(<<
        <<"AWSTemplateFormatVersion", Str("2010-09-09")>>,
        <<"Description", Str("AWS CodePipeline for " \o this.projectName
                               \o " Kubernetes deployment")>>,
        <<"Resources", Map(<<
           <<"ArtifactBucket", Map(<<
              <<"Type", Str("AWS::S3::Bucket")>>,
              <<"Properties", Map(<<
                 <<"VersioningConfiguration", Map(<< <<"Status", Str("Enabled")>> >>)>> >>)>>
           >>)>>,
           <<"CodeBuildServiceRole", Map(<<
              <<"Type", Str("AWS::IAM::Role")>>,
              <<"Properties", Map(<<
                 <<"AssumeRolePolicyDocument", AssumeRolePolicy("codebuild.amazonaws.com")>>,
                 <<"ManagedPolicyArns", Strs(<<
                    "arn:aws:iam::aws:policy/AmazonECR-FullAccess",
                    "arn:aws:iam::aws:policy/AmazonS3FullAccess" >>)>> >>)>> >>)>>,
           <<"CodePipelineServiceRole", Map(<<
              <<"Type", Str("AWS::IAM::Role")>>,
              <<"Properties", Map(<<
                 <<"AssumeRolePolicyDocument", AssumeRolePolicy("codepipeline.amazonaws.com")>>,
                 <<"ManagedPolicyArns", Strs(<<
                    "arn:aws:iam::aws:policy/AWSCodeBuildAdminAccess",
                    "arn:aws:iam::aws:policy/AmazonS3FullAccess",
                    "arn:aws:iam::aws:policy/AmazonECR-FullAccess" >>)>> >>)>> >>)>>,
           <<"DockerBuildProject", Map(<<
              <<"Type", Str("AWS::CodeBuild::Project")>>,
              <<"Properties", Map(<<
                 <<"Name", Str(this.projectName \o "-docker-build")>>,
                 <<"ServiceRole", GetAtt("CodeBuildServiceRole", "Arn")>>,
                 <<"Artifacts", Map(<< <<"Type", Str("CODEPIPELINE")>> >>)>>,
                 <<"Environment", Map(<<
                    <<"Type", Str("LINUX_CONTAINER")>>,
                    <<"ComputeType", Str("BUILD_GENERAL1_SMALL")>>,
                    <<"Image", Str("aws/codebuild/amazonlinux2-x86_64-standard:3.0")>>,
                    <<"PrivilegedMode", Bool(TRUE)>> >>)>>,
                 <<"Source", Map(<<
                    <<"Type", Str("CODEPIPELINE")>>,
                    <<"BuildSpec", Text(generateBuildSpec(this).val)>> >>)>> >>)>> >>)>>,
           <<"KubernetesDeployProject", Map(<<
              <<"Type", Str("AWS::CodeBuild::Project")>>,
              <<"Properties", Map(<<
                 <<"Name", Str(this.projectName \o "-k8s-deploy")>>,
                 <<"ServiceRole", GetAtt("CodeBuildServiceRole", "Arn")>>,
                 <<"Artifacts", Map(<< <<"Type", Str("CODEPIPELINE")>> >>)>>,
                 <<"Environment", Map(<<
                    <<"Type", Str("LINUX_CONTAINER")>>,
                    <<"ComputeType", Str("BUILD_GENERAL1_SMALL")>>,
                    <<"Image", Str("aws/codebuild/amazonlinux2-x86_64-standard:3.0")>> >>)>>,
                 <<"Source", Map(<<
                    <<"Type", Str("CODEPIPELINE")>>,
                    <<"BuildSpec", Text(generateDeployBuildSpec(this).val)>> >>)>> >>)>> >>)>>,
           <<"Pipeline", Map(<<
              <<"Type", Str("AWS::CodePipeline::Pipeline")>>,
              <<"Properties", Map(<<
                 <<"Name", Str(pipelineName)>>,
                 <<"RoleArn", GetAtt("CodePipelineServiceRole", "Arn")>>,
                 <<"ArtifactStore", Map(<<
                    <<"Type", Str("S3")>>,
                    <<"Location", Ref("ArtifactBucket")>> >>)>>,
                 <<"Stages", PipelineStages(this)>> >>)>> >>)>> >>)>>,
        <<"Outputs", Map(<<
           <<"PipelineUrl", Map(<<
              <<"Description", Str("URL to the AWS CodePipeline console")>>,
              <<"Value", Map(<< <<"Fn::Sub", Str(
                 "https://${AWS::Region}.console.aws.amazon.com/codepipeline/home?region=${AWS::Region}#/view/"
                   \o pipelineName)>> >>)>> >>)>> >>)>> >>)
  IN Return(this, pipeline)

\* The value at a key of a mapping node of a document tree.
Get(node, key) ==
  node.v[CHOOSE i \in 1..Len(node.v) : node.v[i][1] = key][2]

-----------------------------------------------------------------------------
(* fs and path: the file tree is the set of its directories and the content  *)
(* of each of its files, by path relative to the working directory.  The     *)
(* content of a file is held as the name of the render call whose output     *)
(* was written to it.                                                        *)

\* path.normalize on the relative paths the generator builds.
Normalize(p) == IF Len(p) >= 2 /\ SubSeq(p, 1, 2) = "./" THEN SubSeq(p, 3, Len(p)) ELSE p

\* path.join(a, b)
PathJoin(a, b) == Normalize(a) \o "/" \o b

\* p and the directories above it, up to the working directory.
Ancestors(p) ==
  {SubSeq(p, 1, i - 1) : i \in {j \in 1..Len(p) : SubSeq(p, j, j) = "/"}} \cup {p}

\* path.dirname(p); "." is the working directory.
Dirname(p) ==
  IF LastIndexOf(p, "/") = 0 THEN "." ELSE SubSeq(p, 1, LastIndexOf(p, "/") - 1)

IsDir(tree, p) == p = "." \/ p \in tree.dirs

IsFile(tree, p) == p \in DOMAIN tree.files

existsSync(tree, p) == IsDir(tree, Normalize(p)) \/ IsFile(tree, Normalize(p))

\* fs.mkdirSync(p, { recursive: true })
mkdirSync(tree, p) ==
  IF \E a \in Ancestors(Normalize(p)) : IsFile(tree, a)
  THEN [fs |-> tree, ok |-> FALSE, err |-> "ENOTDIR"]
  ELSE [fs |-> [tree EXCEPT !.dirs = @ \cup Ancestors(Normalize(p))], ok |-> TRUE, err |-> ""]

\* fs.writeFileSync(p, data)
writeFileSync(tree, p, data) ==
  LET q == Normalize(p)
  IN IF ~IsDir(tree, Dirname(q))
     THEN [fs |-> tree, ok |-> FALSE, err |-> "ENOENT"]
     ELSE IF IsDir(tree, q)
     THEN [fs |-> tree, ok |-> FALSE, err |-> "EISDIR"]
     ELSE [fs |-> [tree EXCEPT !.files = (q :> data) @@ @], ok |-> TRUE, err |-> ""]

-----------------------------------------------------------------------------
(* Output Writer *)

\* One statement of saveToFiles: create a directory unless the path exists,
\* write the output of a render call to a file, or fail because the render
\* call threw.
EnsureDir(p) == [do |-> "ensureDir", path |-> p]

WriteFile(p, by, c) ==
  IF c.ok THEN [do |-> "write", path |-> p, data |-> by]
  ELSE [do |-> "throw", path |-> p, err |-> c.val]

RunStatement(tree, st) ==
  CASE st.do = "ensureDir" ->
         IF existsSync(tree, st.path) THEN [fs |-> tree, ok |-> TRUE, err |-> ""]
         ELSE mkdirSync(tree, st.path)
    [] st.do = "write" -> writeFileSync(tree, st.path, st.data)
    [] st.do = "throw" -> [fs |-> tree, ok |-> FALSE, err |-> st.err]

\* The statements from the i-th on, in order, stopping at the first that throws;
\* done is the number of statements that completed.
RECURSIVE RunStatements(_, _, _)
RunStatements(tree, sts, i) ==
  IF i > Len(sts) THEN [fs |-> tree, ok |-> TRUE, err |-> "", done |-> Len(sts)]
  ELSE LET r == RunStatement(tree, sts[i])
       IN IF r.ok THEN RunStatements(r.fs, sts, i + 1)
          ELSE [fs |-> r.fs, ok |-> FALSE, err |-> r.err, done |-> i - 1]

\* yaml.dump of a completion's value.
Dumped(c) == [c EXCEPT !.val = YamlDump(c.val)]

\* this.environments.forEach(env => ...) writing the manifests of each environment.
ManifestStatementsOneFile(this, k8sDir) ==
  LET envs == this.environments
      envDir(i) == PathJoin(k8sDir, envs[i])
  IN [j \in 1..(2 * Len(envs)) |->
        LET i == (j + 1) \div 2
        IN IF j % 2 = 1
           THEN WriteFile(PathJoin(envDir(i), "deployment.yaml"), "generateK8sDeployment",
                  generateK8sDeployment(this, this.projectName \o "-" \o envs[i],
                                        undefined, undefinedObj))
           ELSE WriteFile(PathJoin(envDir(i), "deployment.yaml"), "generateK8sService",
                  generateK8sService(this, undefinedObj, undefinedObj, undefined))]

ManifestStatements(this, k8sDir) ==
  LET envs == this.environments
      envDir(i) == PathJoin(k8sDir, envs[i])
  IN [j \in 1..(2 * Len(envs)) |->
        LET i == (j + 1) \div 2
        IN IF j % 2 = 1
           THEN WriteFile(PathJoin(envDir(i), "deployment.yaml"), "generateK8sDeployment",
                  generateK8sDeployment(this, this.projectName \o "-" \o envs[i],
                                        undefined, undefinedObj))
           ELSE WriteFile(PathJoin(envDir(i), "service.yaml"), "generateK8sService",
                  generateK8sService(this, undefinedObj, undefinedObj, undefined))]

\* The directory statements without those of the environment directories.
DirStatementsNoEnvDirs(this, outputDir) ==
  << EnsureDir(outputDir), EnsureDir(PathJoin(outputDir, "k8s")) >>

\* saveToFiles: the output directory, its k8s directory and the directory of
\* each environment are created unless they exist.
DirStatements(this, outputDir) ==
  LET k8sDir == PathJoin(outputDir, "k8s")
      envs == this.environments
  IN << EnsureDir(outputDir), EnsureDir(k8sDir) >>
     \o [i \in 1..Len(envs) |-> EnsureDir(PathJoin(k8sDir, envs[i]))]

SaveStatements(this, outputDir) ==
  LET k8sDir == PathJoin(outputDir, "k8s")
  IN DirStatements(this, outputDir)
     \o << WriteFile(PathJoin(outputDir, "Jenkinsfile"), "generateJenkinsfile",
                     generateJenkinsfile(this)),
           WriteFile(PathJoin(outputDir, "aws-codepipeline.yaml"), "generateAwsCodePipeline",
                     Dumped(generateAwsCodePipeline(this))),
           WriteFile(PathJoin(outputDir, "buildspec.yml"), "generateBuildSpec",
                     generateBuildSpec(this)),
           WriteFile(PathJoin(outputDir, "deploy-buildspec.yml"), "generateDeployBuildSpec",
                     generateDeployBuildSpec(this)) >>
     \o ManifestStatements(this, k8sDir)

\* The object saveToFiles returns.
SavedPathsWithManifests(dir) ==
  [ jenkinsfilePath |-> PathJoin(dir, "Jenkinsfile"),
    awsCodePipelinePath |-> PathJoin(dir, "aws-codepipeline.yaml"),
    buildspecPath |-> PathJoin(dir, "buildspec.yml"),
    deployBuildspecPath |-> PathJoin(dir, "deploy-buildspec.yml"),
    k8sDir |-> PathJoin(PathJoin(PathJoin(dir, "k8s"), "dev"), "deployment.yaml") ]

SavedPaths(dir) ==
  [ jenkinsfilePath |-> PathJoin(dir, "Jenkinsfile"),
    awsCodePipelinePath |-> PathJoin(dir, "aws-codepipeline.yaml"),
    buildspecPath |-> PathJoin(dir, "buildspec.yml"),
    deployBuildspecPath |-> PathJoin(dir, "deploy-buildspec.yml"),
    k8sDir |-> PathJoin(dir, "k8s") ]

saveToFiles(this, tree, outputDir) ==
  LET dir == Default(outputDir, "./pipeline")
      r == RunStatements(tree, SaveStatements(this, dir), 1)
      \* the generator as the render calls that ran left it
      after == IF r.done >= 2 + Len(this.environments)
               THEN generateJenkinsfile(this).this ELSE this
  IN IF r.ok
     THEN [this |-> after, fs |-> r.fs, ok |-> TRUE, val |-> SavedPaths(dir)]
     ELSE [this |-> after, fs |-> r.fs, ok |-> FALSE, val |-> r.err]

-----------------------------------------------------------------------------
(* The calls a client makes, and the arguments the model draws them from *)

\* Constructor options: none, and those of src/example.js.
ExampleOptions ==
  [ projectName |-> "my-nodejs-app",
    repoUrl |-> "https://github.com/myorg/my-nodejs-app",
    branch |-> "main",
    namespace |-> "production",
    dockerRegistry |-> "myorg",
    dockerfilePath |-> "./Dockerfile",
    registry |-> [aws |-> [region |-> "us-west-2",
                           accountId |-> "123456789012",
                           ecrRepository |-> "my-nodejs-app"]] ]

Options == { <<>>, ExampleOptions }

LintStep == [name |-> "eslint", image |-> "node:16", command |-> <<"sh", "-c", "npm run lint">>]

LintStage == [name |-> "lint", steps |-> <<LintStep>>]

NoStepsStage == [name |-> "noop", steps |-> <<>>]

\* Stage descriptors handed to addStage: a one-step stage; a stage with the same
\* name, first-step image and third command token, and with environment lists,
\* a second step, a run-after reference and the parallel flag; a stage without steps; a step without image; a command that is not
\* ['sh', '-c', script], in an image reference without a tag.
CustomStages ==
  { LintStage,
    [name |-> "lint",
     steps |-> <<[name |-> "eslint-ci", image |-> "node:16",
                  command |-> <<"bash", "-ec", "npm run lint">>,
                  env |-> <<[name |-> "CI", value |-> "true"]>>],
                 [name |-> "audit", image |-> "node:18-alpine",
                  command |-> <<"sh", "-c", "npm audit">>]>>,
     env |-> <<[name |-> "NODE_ENV", value |-> "test"]>>,
     runAfter |-> "test", parallel |-> TRUE],
    NoStepsStage,
    [name |-> "scan", steps |-> <<[name |-> "trivy", command |-> <<"sh", "-c", "trivy fs .">>]>>],
    [name |-> "hello", steps |-> <<[name |-> "echo", image |-> "alpine",
                                    command |-> <<"echo", "hi">>]>>] }

TestArgs == { <<undefined, undefined>>, <<"npm test && npm run lint", "node:16">> }

BuildArgs == { <<undefined, undefined>>, <<"npm ci && npm run build", "node:16">> }

DockerArgs == { <<"app", "v1">>, <<"my-nodejs-app", undefined>> }

DeployArgs == { undefined, "dev", "staging", "prod", "qa", "production" }

\* The arguments of every kind of add call, and a few of each.
AllArgs ==
  [ maxStages |-> MaxStages,
    addStage |-> CustomStages, addTestStage |-> TestArgs, addBuildStage |-> BuildArgs,
    addDockerBuildStage |-> DockerArgs, addDeployStage |-> DeployArgs ]

FewArgs ==
  [ maxStages |-> MaxStages,
    addStage |-> {LintStage, NoStepsStage}, addTestStage |-> {<<undefined, undefined>>},
    addBuildStage |-> {<<undefined, undefined>>}, addDockerBuildStage |-> {<<"app", "v1">>},
    addDeployStage |-> {"prod", "qa"} ]

ObsArgs == [FewArgs EXCEPT !.maxStages = MaxObsStages]

DeploymentArgs ==
  { <<"svc", "v2", Map(<< <<"cpu", Str("100m")>>, <<"memory", Str("128Mi")>> >>)>>,
    <<"custom-app", "v1.0.0", Map(<< <<"cpu", Str("200m")>>, <<"memory", Str("256Mi")>> >>)>>,
    <<"app", undefined, undefinedObj>> }

ServiceArgs ==
  { <<undefinedObj, undefinedObj, undefined>>, <<Num(8080), Num(3000), "LoadBalancer">> }

OutputDirs == { "out/pipeline" }

NoFiles == [x \in {} |-> ""]

\* The output tree before the first save: absent with its parent, a fresh empty
\* directory, partly present with files of an earlier run, and one whose k8s
\* entry is a file.
AbsentTree == [dirs |-> {}, files |-> NoFiles]

InitialTrees ==
  { AbsentTree,
    [dirs |-> {"out", "out/pipeline"}, files |-> NoFiles],
    [dirs |-> {"out", "out/pipeline", "out/pipeline/k8s", "out/pipeline/k8s/dev"},
     files |-> [x \in {"out/pipeline/Jenkinsfile", "out/pipeline/NOTES.txt"} |-> "earlier run"]],
    [dirs |-> {"out", "out/pipeline"},
     files |-> [x \in {"out/pipeline/k8s"} |-> "earlier run"]] }

Adders == {"addStage", "addTestStage", "addBuildStage", "addDockerBuildStage", "addDeployStage"}

Renderers == {"generateJenkinsfile", "generateAwsCodePipeline", "generateBuildSpec",
              "generateDeployBuildSpec", "generateK8sDeployment", "generateK8sService"}

Nothing == [op |-> "none"]

\* A call of op with args completes as c.
Call(op, args, c) ==
  /\ self' = c.this
  /\ ret' = [op |-> op, args |-> args, ok |-> c.ok, val |-> c.val]

\* An add call: what the caller kept from earlier renders is out of date.
Add(A, op, args, c) ==
  /\ Len(self.stages) < A.maxStages
  /\ Call(op, args, c)
  /\ kept' = Nothing
  /\ UNCHANGED fs

\* A render call; the caller notes that it came after the output it kept.
Render(op, args, c) ==
  /\ Call(op, args, c)
  /\ kept' = IF kept = Nothing THEN kept ELSE [kept EXCEPT !.later = TRUE]
  /\ fs' = fs

AddStage(A) ==
  \E stage \in A.addStage : Add(A, "addStage", <<stage>>, addStage(self, stage))

AddTestStage(A) ==
  \E a \in A.addTestStage : Add(A, "addTestStage", a, addTestStage(self, a[1], a[2]))

AddBuildStage(A) ==
  \E a \in A.addBuildStage : Add(A, "addBuildStage", a, addBuildStage(self, a[1], a[2]))

AddDockerBuildStage(A) ==
  \E a \in A.addDockerBuildStage :
    Add(A, "addDockerBuildStage", a, addDockerBuildStage(self, a[1], a[2]))

AddDeployStage(A) ==
  \E e \in A.addDeployStage :
    Add(A, "addDeployStage", <<e>>, addDeployStage(self, e, undefinedObj))

GenerateJenkinsfile == Render("generateJenkinsfile", <<>>, generateJenkinsfile(self))

GenerateAwsCodePipeline == Render("generateAwsCodePipeline", <<>>, generateAwsCodePipeline(self))

GenerateBuildSpec == Render("generateBuildSpec", <<>>, generateBuildSpec(self))

GenerateDeployBuildSpec == Render("generateDeployBuildSpec", <<>>, generateDeployBuildSpec(self))

GenerateK8sDeployment ==
  \E a \in DeploymentArgs :
    Render("generateK8sDeployment", a, generateK8sDeployment(self, a[1], a[2], a[3]))

GenerateK8sService ==
  \E a \in ServiceArgs :
    Render("generateK8sService", a, generateK8sService(self, a[1], a[2], a[3]))

SaveToFiles ==
  \E dir \in OutputDirs :
    LET c == saveToFiles(self, fs, dir)
    IN /\ Call("saveToFiles", <<dir>>, c)
       /\ fs' = c.fs
       /\ kept' = IF kept = Nothing THEN kept ELSE [kept EXCEPT !.later = TRUE]

\* The caller keeps the output of the render call that has just returned.
Keep ==
  /\ ret.op \in Renderers
  /\ ret.ok
  /\ kept' = [op |-> ret.op, args |-> ret.args, val |-> ret.val, later |-> FALSE]
  /\ UNCHANGED <<self, fs, ret>>

Constructed(options) ==
  /\ self = K8sPipelineGenerator(options)
  /\ ret = [op |-> "new", args |-> <<options>>, ok |-> TRUE, val |-> "this"]
  /\ kept = Nothing

\* Building a pipeline: stages of every kind are added and the two pipeline
\* documents rendered.
Init ==
  /\ \E options \in Options : Constructed(options)
  /\ fs = AbsentTree

Next ==
  \/ AddStage(AllArgs)
  \/ AddTestStage(AllArgs)
  \/ AddBuildStage(AllArgs)
  \/ AddDockerBuildStage(AllArgs)
  \/ AddDeployStage(AllArgs)
  \/ GenerateJenkinsfile
  \/ GenerateAwsCodePipeline

Spec == Init /\ [][Next]_vars

\* Every operation of the generator, on a few stages of each kind.
NextAll ==
  \/ AddStage(FewArgs)
  \/ AddTestStage(FewArgs)
  \/ AddBuildStage(FewArgs)
  \/ AddDockerBuildStage(FewArgs)
  \/ AddDeployStage(FewArgs)
  \/ GenerateJenkinsfile
  \/ GenerateAwsCodePipeline
  \/ GenerateBuildSpec
  \/ GenerateDeployBuildSpec
  \/ GenerateK8sDeployment
  \/ GenerateK8sService
  \/ SaveToFiles

InitAll ==
  /\ Constructed(ExampleOptions)
  /\ fs = AbsentTree

SpecAll == InitAll /\ [][NextAll]_vars

\* A client that renders, keeps an output and renders again.
InitObs ==
  /\ Constructed(ExampleOptions)
  /\ fs = AbsentTree

NextObs ==
  \/ AddStage(ObsArgs)
  \/ AddTestStage(ObsArgs)
  \/ AddBuildStage(ObsArgs)
  \/ AddDockerBuildStage(ObsArgs)
  \/ AddDeployStage(ObsArgs)
  \/ GenerateJenkinsfile
  \/ GenerateAwsCodePipeline
  \/ GenerateBuildSpec
  \/ GenerateDeployBuildSpec
  \/ GenerateK8sDeployment
  \/ GenerateK8sService
  \/ SaveToFiles
  \/ Keep

SpecObs == InitObs /\ [][NextObs]_vars

\* Saving into every kind of output tree.
InitSave ==
  /\ \E options \in Options : Constructed(options)
  /\ fs \in InitialTrees

NextSave ==
  \/ AddStage(FewArgs)
  \/ AddTestStage(FewArgs)
  \/ AddBuildStage(FewArgs)
  \/ AddDockerBuildStage(FewArgs)
  \/ AddDeployStage(FewArgs)
  \/ SaveToFiles

SpecSave == InitSave /\ [][NextSave]_vars

-----------------------------------------------------------------------------
(* Properties.                                                               *)

\* C1: a deploy stage for an environment that is not one of dev, staging,
\* prod is rejected: the call throws, the stage sequence is what it was before
\* the call, and the error message names the rejected environment and lists
\* the valid environments.
C1_InvalidEnvironmentRejected ==
  [][ (/\ ret'.op = "addDeployStage"
       /\ Default(ret'.args[1], "dev") \notin {"dev", "staging", "prod"})
      => /\ ~ret'.ok
         /\ self'.stages = self.stages
         /\ Includes(ret'.val, "Environment " \o Default(ret'.args[1], "dev") \o " is not valid")
         /\ Includes(ret'.val, "Use one of: dev, staging, prod")
         /\ \A i \in 1..Len(self.environments) : Includes(ret'.val, self.environments[i]) ]_vars

\* A rejected deploy stage on a generator that already holds stages.
C1_Witness ==
  /\ ret.op = "addDeployStage"
  /\ ~ret.ok
  /\ ret.args[1] = "qa"
  /\ Len(self.stages) >= 1

\* C2: the Jenkinsfile of a generator whose stages s1..sn each have steps with
\* an image and a command contains the Checkout block, then exactly n stage
\* blocks named after s1..sn in insertion order (equal names and equal stages
\* each get their own block), then one post block.
C2_JenkinsfileStageBlocks ==
  LET IsStage(st) ==
        /\ Len(st.steps) >= 1
        /\ \A j \in 1..Len(st.steps) : {"image", "command"} \subseteq DOMAIN st.steps[j]
      IsBlock(l) ==
        /\ Len(l) >= 15
        /\ SubSeq(l, 1, 11) = "    stage('"
        /\ SubSeq(l, Len(l) - 3, Len(l)) = "') {"
      Blocks(lines) == SelectSeq(lines, IsBlock)
      NameOf(l) == SubSeq(l, 12, Len(l) - 4)
  IN (/\ ret.op = "generateJenkinsfile"
      /\ \A i \in 1..Len(self.stages) : IsStage(self.stages[i]))
     => /\ ret.ok
        /\ [i \in 1..Len(Blocks(ret.val)) |-> NameOf(Blocks(ret.val)[i])]
             = <<"Checkout">> \o [i \in 1..Len(self.stages) |-> self.stages[i].name]
        /\ \E p \in 1..Len(ret.val) :
             /\ ret.val[p] = "  post {"
             /\ \A q \in 1..Len(ret.val) :
                  /\ ret.val[q] = "  post {" => q = p
                  /\ IsBlock(ret.val[q]) => q < p

\* A Jenkinsfile rendered from two stages of the same name.
C2_Witness ==
  /\ ret.op = "generateJenkinsfile"
  /\ ret.ok
  /\ Len(self.stages) = 2
  /\ self.stages[1].name = self.stages[2].name

\* C3: a renderer called again with the same arguments, with no add call in
\* between and any number of other render or save calls in between, returns
\* what it returned before.
C3_RenderersDeterministic ==
  (/\ kept.op # "none"
   /\ kept.later
   /\ ret.op = kept.op
   /\ ret.args = kept.args)
  => /\ ret.ok
     /\ ret.val = kept.val

\* The Jenkinsfile rendered a second time from a generator that holds a stage.
C3_Witness ==
  /\ kept.op = "generateJenkinsfile"
  /\ kept.later
  /\ ret.op = "generateJenkinsfile"
  /\ Len(self.stages) >= 1

\* C4: the stages of the cloud pipeline are exactly Source, Build, Deploy in
\* that order, and the pipeline document is the one a generator with the same
\* configuration and any other stage sequence renders.
C4_CloudPipelineFixedStages ==
  ret.op = "generateAwsCodePipeline"
  => LET Stages == Get(Get(Get(Get(ret.val, "Resources"), "Pipeline"), "Properties"), "Stages").v
     IN /\ ret.ok
        /\ [i \in 1..Len(Stages) |-> Get(Stages[i], "Name").v] = <<"Source", "Build", "Deploy">>
        /\ \A other \in {<<>>, <<LintStage>>, <<NoStepsStage, LintStage>>} :
             generateAwsCodePipeline([self EXCEPT !.stages = other]).val = ret.val

\* The cloud pipeline rendered from a generator that holds two stages.
C4_Witness ==
  /\ ret.op = "generateAwsCodePipeline"
  /\ Len(self.stages) = 2
  /\ self.stages[1].name # self.stages[2].name

\* C5: saveToFiles on an existing empty directory, for a generator whose stages
\* each have steps with an image and a command, returns and leaves exactly ten
\* files under the directory: Jenkinsfile, aws-codepipeline.yaml, buildspec.yml,
\* deploy-buildspec.yml, and k8s/<env>/deployment.yaml and k8s/<env>/service.yaml
\* for each of dev, staging, prod.
C5_SaveCreatesTheFileSet ==
  [][ LET IsStage(st) ==
            /\ Len(st.steps) >= 1
            /\ \A j \in 1..Len(st.steps) : {"image", "command"} \subseteq DOMAIN st.steps[j]
          Under(d, q) == Len(q) > Len(d) /\ SubSeq(q, 1, Len(d) + 1) = d \o "/"
          Expected(d) ==
            {d \o "/Jenkinsfile", d \o "/aws-codepipeline.yaml", d \o "/buildspec.yml",
             d \o "/deploy-buildspec.yml"}
            \cup {d \o "/k8s/" \o e \o "/" \o f :
                    e \in {"dev", "staging", "prod"}, f \in {"deployment.yaml", "service.yaml"}}
      IN (/\ ret'.op = "saveToFiles"
          /\ ret'.args[1] \in fs.dirs
          /\ DOMAIN fs.files = {}
          /\ \A q \in fs.dirs : ~Under(ret'.args[1], q)
          /\ \A i \in 1..Len(self.stages) : IsStage(self.stages[i]))
         => /\ ret'.ok
            /\ DOMAIN fs'.files = Expected(ret'.args[1])
            /\ DOMAIN fs'.files \cap fs'.dirs = {} ]_vars

\* A save that returned and left ten files, by a generator that holds a stage.
C5_Witness ==
  /\ ret.op = "saveToFiles"
  /\ ret.ok
  /\ Len(self.stages) >= 1
  /\ Cardinality(DOMAIN fs.files) = 10
  /\ "out/pipeline/k8s/prod/service.yaml" \in DOMAIN fs.files

C7_DeployStepBindsEnvironment ==
  (ret.op = "addDeployStage" /\ ret.ok)
  => LET e == Default(ret.args[1], "dev")
         st == self.stages[Len(self.stages)]
     IN /\ st.name = "deploy-to-" \o e
        /\ Len(st.steps) = 1
        /\ st.steps[1].command
             = <<"sh", "-c", "kubectl apply -f /workspace/k8s/${ENVIRONMENT}/">>
        /\ "env" \in DOMAIN st.steps[1]
        /\ \E i \in 1..Len(st.steps[1].env) :
             st.steps[1].env[i] = [name |-> "ENVIRONMENT", value |-> e]

\* C8: the stage addDockerBuildStage(n, t) appends has one step whose script
\* builds and pushes the same image reference r/n:t, r being the configured
\* registry and t being latest when no tag is given, and names no other
\* reference to that image.
C8_DockerBuildAndPushSameImage ==
  ret.op = "addDockerBuildStage"
  => LET st == self.stages[Len(self.stages)]
         ref == self.dockerRegistry \o "/" \o ret.args[1] \o ":"
                  \o (IF ret.args[2] = undefined THEN "latest" ELSE ret.args[2])
         script == st.steps[1].command[3]
     IN /\ ret.ok
        /\ Len(st.steps) = 1
        /\ Len(st.steps[1].command) = 3
        /\ Includes(script, "docker build -t " \o ref \o " ")
        /\ Includes(script, "docker push " \o ref)
        /\ SubSeq(script, Len(script) - Len(ref) + 1, Len(script)) = ref
        /\ Occurrences(script, "docker build") = 1
        /\ Occurrences(script, "docker push") = 1
        /\ Occurrences(script, ref) = 2
        /\ Occurrences(script, ret.args[1] \o ":") = 2

\* A docker build stage added with no tag, after another stage.
C8_Witness ==
  /\ ret.op = "addDockerBuildStage"
  /\ ret.args[2] = undefined
  /\ Len(self.stages) = 2

\* C9: the container image of a rendered Deployment is the literal
\* IMAGE_PLACEHOLDER whatever name and tag are passed, its resource requests
\* are the resources argument (100m cpu and 128Mi memory when none is passed),
\* and the deploy build specification has a sed command that rewrites that
\* same token in kubernetes/deployment.yaml.
C9_DeploymentImageIsPlaceholder ==
  ret.op = "generateK8sDeployment"
  => LET image == YamlAt(ret.val, "spec.template.spec.containers[0].image")
         given == IF ret.args[3] = undefinedObj
                  THEN <<<<"cpu", "100m">>, <<"memory", "128Mi">>>>
                  ELSE [i \in 1..Len(ret.args[3].v) |->
                          <<ret.args[3].v[i][1], ret.args[3].v[i][2].v>>]
         deploy == generateDeployBuildSpec(self).val
     IN /\ ret.ok
        /\ image = "IMAGE_PLACEHOLDER"
        /\ Cardinality({i \in 1..Len(ret.val) :
                          ret.val[i].k = "spec.template.spec.containers[0].image"}) = 1
        /\ YamlUnder(ret.val, "spec.template.spec.containers[0].resources.requests")
             = [i \in 1..Len(given) |-> [k |-> "." \o given[i][1], v |-> given[i][2]]]
        /\ \E i \in 1..Len(deploy) :
             /\ Includes(deploy[i].v, "sed -i ")
             /\ Includes(deploy[i].v, "s|" \o image \o "|$IMAGE_URI|g")
             /\ Includes(deploy[i].v, " kubernetes/deployment.yaml")

\* A Deployment rendered with a name, a tag and resources of the caller's.
C9_Witness ==
  /\ ret.op = "generateK8sDeployment"
  /\ ret.args[1] = "custom-app"
  /\ ret.args[2] = "v1.0.0"
  /\ Len(self.stages) >= 1

\* C10: a call changes the stage sequence only when it is an add call that
\* returns, and then it appends exactly one stage and leaves the earlier ones
\* as they were, in order; render calls and saveToFiles leave the sequence as
\* it was; no call changes the configuration.
C10_StagesOnlyGrowByAdds ==
  [][ /\ Config(self') = Config(self)
      /\ \/ self'.stages = self.stages
         \/ /\ ret'.op \in Adders
            /\ ret'.ok
            /\ Len(self'.stages) = Len(self.stages) + 1
            /\ SubSeq(self'.stages, 1, Len(self.stages)) = self.stages
      /\ (ret'.op \in Adders /\ ret'.ok) => Len(self'.stages) = Len(self.stages) + 1
      /\ ret'.op \in Renderers \cup {"saveToFiles"} => self'.stages = self.stages ]_vars

\* A save that returned, by a generator that holds two stages.
C10_Witness ==
  /\ ret.op = "saveToFiles"
  /\ ret.ok
  /\ Len(self.stages) = 2

\* C11 as stated: addStage returns for every stage descriptor, and
\* generateJenkinsfile returns a pipeline script for every stage sequence built
\* by add calls, a stage with no steps, with a first step without image, or
\* with a command that is not ['sh', '-c', script] included.
C11_JenkinsfileNeverFails ==
  /\ ret.op = "addStage" => ret.ok
  /\ ret.op = "generateJenkinsfile"
       => /\ ret.ok
          /\ \E p \in 1..Len(ret.val) : ret.val[p] = "pipeline {"

\* C2 as stated: the Jenkinsfile of every stage sequence s1..sn built by add
\* calls contains the Checkout block, then exactly n stage blocks named after
\* s1..sn in insertion order, then one post block.
C2_StageBlocksOfEverySequence ==
  LET IsBlock(l) ==
        /\ Len(l) >= 15
        /\ SubSeq(l, 1, 11) = "    stage('"
        /\ SubSeq(l, Len(l) - 3, Len(l)) = "') {"
      Blocks(lines) == SelectSeq(lines, IsBlock)
      NameOf(l) == SubSeq(l, 12, Len(l) - 4)
  IN ret.op = "generateJenkinsfile"
     => /\ ret.ok
        /\ [i \in 1..Len(Blocks(ret.val)) |-> NameOf(Blocks(ret.val)[i])]
             = <<"Checkout">> \o [i \in 1..Len(self.stages) |-> self.stages[i].name]
        /\ \E p \in 1..Len(ret.val) :
             /\ ret.val[p] = "  post {"
             /\ \A q \in 1..Len(ret.val) : IsBlock(ret.val[q]) => q < p

\* C5 as stated: saveToFiles on an existing empty directory leaves exactly the
\* ten files under it, whatever stages the generator holds.
C5_SaveCreatesTheFileSetForEveryGenerator ==
  [][ LET Under(d, q) == Len(q) > Len(d) /\ SubSeq(q, 1, Len(d) + 1) = d \o "/"
          Expected(d) ==
            {d \o "/Jenkinsfile", d \o "/aws-codepipeline.yaml", d \o "/buildspec.yml",
             d \o "/deploy-buildspec.yml"}
            \cup {d \o "/k8s/" \o e \o "/" \o f :
                    e \in {"dev", "staging", "prod"}, f \in {"deployment.yaml", "service.yaml"}}
      IN (/\ ret'.op = "saveToFiles"
          /\ ret'.args[1] \in fs.dirs
          /\ DOMAIN fs.files = {}
          /\ \A q \in fs.dirs : ~Under(ret'.args[1], q))
         => /\ ret'.ok
            /\ DOMAIN fs'.files = Expected(ret'.args[1]) ]_vars

\* C12: during saveToFiles every file is written into a directory that exists
\* by then: in the order of its statements, each write comes after the
\* statement that creates the directory of the file unless it exists, and in
\* the tree the statements before the write leave behind that directory is
\* there, whether the output tree was absent, partly present or fully present
\* at the call; no statement fails for a missing directory, and after a call
\* that returned the output directory, its k8s directory and the directory of
\* each environment exist.
C12_DirectoriesBeforeWrites ==
  [][ ret'.op = "saveToFiles"
      => \A sts \in {SaveStatements(self, ret'.args[1])} :
           /\ \A i \in 1..Len(sts) :
                sts[i].do = "write"
                => /\ \E j \in 1..(i - 1) :
                        /\ sts[j].do = "ensureDir"
                        /\ Normalize(sts[j].path) = Dirname(Normalize(sts[i].path))
                   /\ \A before \in {RunStatements(fs, SubSeq(sts, 1, i - 1), 1)} :
                        before.ok => Dirname(Normalize(sts[i].path)) \in before.fs.dirs
           /\ ~ret'.ok => ret'.val # "ENOENT"
           /\ \A q \in DOMAIN fs'.files : Dirname(q) \in fs'.dirs
           /\ ret'.ok => \A e \in {"", "/k8s", "/k8s/dev", "/k8s/staging", "/k8s/prod"} :
                           Ancestors(ret'.args[1] \o e) \subseteq fs'.dirs ]_vars

\* A save that returned into a tree that was partly present: a file of an
\* earlier run is still there, the Jenkinsfile is rewritten and the manifests
\* of an environment whose directory was missing are written.
C12_Witness ==
  /\ ret.op = "saveToFiles"
  /\ ret.ok
  /\ "out/pipeline/NOTES.txt" \in DOMAIN fs.files
  /\ fs.files["out/pipeline/Jenkinsfile"] = "generateJenkinsfile"
  /\ "out/pipeline/k8s/staging/service.yaml" \in DOMAIN fs.files

\* C13: in a rendered Jenkinsfile the block of a stage names the stage, its
\* container is the part of the first step's image reference before the first
\* colon, and its shell body is the third token of the first step's command as
\* it is; two stages that agree on name, first-step image and third command
\* token have the same block, whatever else they hold (further steps,
\* environment lists, run-after reference, parallel flag, the first two
\* command tokens).
C13_BlockOfNameAndFirstStep ==
  (ret.op = "generateJenkinsfile" /\ ret.ok)
  => LET IsBlock(l) ==
           /\ Len(l) >= 15
           /\ SubSeq(l, 1, 11) = "    stage('"
           /\ SubSeq(l, Len(l) - 3, Len(l)) = "') {"
         P == {p \in 1..Len(ret.val) : IsBlock(ret.val[p])}
         Pos(k) == CHOOSE p \in P : Cardinality({q \in P : q <= p}) = k
         \* the block of the i-th stage: the Checkout block comes first
         Block(i) == SubSeq(ret.val, Pos(i + 1), Pos(i + 1) + 8)
         First(i) == self.stages[i].steps[1]
         BeforeColon(img) ==
           SubSeq(img, 1, CHOOSE k \in 0..Len(img) :
                            /\ \A j \in 1..k : SubSeq(img, j, j) # ":"
                            /\ k = Len(img) \/ SubSeq(img, k + 1, k + 1) = ":")
         Third(i) == IF Len(First(i).command) >= 3 THEN First(i).command[3] ELSE "undefined"
         N == Len(self.stages)
     IN /\ Cardinality(P) = N + 1
        /\ \A i \in 1..N :
             /\ Block(i)[1] = "    stage('" \o self.stages[i].name \o "') {"
             /\ Block(i)[3] = "        container('" \o BeforeColon(First(i).image) \o "') {"
             /\ Block(i)[5] = "            " \o Third(i)
             /\ Cardinality({k \in 1..9 : Includes(Block(i)[k], "container(")}) = 1
        /\ \A i, j \in 1..N :
             (/\ self.stages[i].name = self.stages[j].name
              /\ First(i).image = First(j).image
              /\ Third(i) = Third(j))
             => Block(i) = Block(j)

\* A Jenkinsfile of two stages that agree on name, first-step image and third
\* command token and differ in everything else.
C13_Witness ==
  /\ ret.op = "generateJenkinsfile"
  /\ ret.ok
  /\ Len(self.stages) = 2
  /\ self.stages[1] = LintStage
  /\ self.stages[2] # LintStage
  /\ self.stages[2].name = "lint"
  /\ Len(self.stages[2].steps) = 2
  /\ "runAfter" \in DOMAIN self.stages[2]

\* C14 as stated: in the Jenkinsfile of a stage sequence built by addTestStage,
\* addBuildStage, addDockerBuildStage and addDeployStage only, every container
\* name in a container('...') line is the name of a container that the agent
\* pod specification of that Jenkinsfile declares (jnlp, docker, kubectl).
C14_ContainersAreDeclared ==
  (/\ ret.op = "generateJenkinsfile"
   /\ ret.ok
   /\ \A i \in 1..Len(self.stages) : self.stages[i] \notin CustomStages)
  => LET lines == ret.val
         At1(l) == CHOOSE p \in 1..Len(lines) : lines[p] = l
         IsDecl(p) ==
           /\ p > At1("  containers:")
           /\ p < At1("  volumes:")
           /\ Len(lines[p]) > 10
           /\ SubSeq(lines[p], 1, 10) = "  - name: "
         Declared == {SubSeq(lines[p], 11, Len(lines[p])) : p \in {q \in 1..Len(lines) : IsDecl(q)}}
         IsUse(l) ==
           /\ Len(l) >= 23
           /\ SubSeq(l, 1, 19) = "        container('"
           /\ SubSeq(l, Len(l) - 3, Len(l)) = "') {"
         Used == {SubSeq(lines[p], 20, Len(lines[p]) - 4) :
                    p \in {q \in 1..Len(lines) : IsUse(lines[q])}}
     IN /\ Declared = {"jnlp", "docker", "kubectl"}
        /\ Used \subseteq Declared

\* C15 as stated: after saveToFiles, every manifest template that the image
\* build specification reads (the input of an envsubst command, relative to the
\* output directory) is a file saveToFiles wrote, and every manifest path that
\* the deploy build specification rewrites with sed or applies with kubectl is
\* a file an envsubst command of the image build specification produced.
C15_ManifestPathsAgree ==
  (ret.op = "saveToFiles" /\ ret.ok)
  => \A build \in {generateBuildSpec(self).val}, deploy \in {generateDeployBuildSpec(self).val} :
       LET Starts(v, pre) == Len(v) > Len(pre) /\ SubSeq(v, 1, Len(pre)) = pre
           After(v, pre) == SubSeq(v, Len(pre) + 1, Len(v))
           Subst == {After(build[i].v, "envsubst < ") :
                       i \in {j \in 1..Len(build) : Starts(build[j].v, "envsubst < ")}}
           Read == {SubSeq(c, 1, IndexOf(c, ">") - 2) : c \in Subst}
           Produced == {SubSeq(c, IndexOf(c, ">") + 2, Len(c)) : c \in Subst}
           Rewritten == {SubSeq(deploy[i].v, LastIndexOf(deploy[i].v, " ") + 1, Len(deploy[i].v)) :
                           i \in {j \in 1..Len(deploy) : Starts(deploy[j].v, "sed -i ")}}
           Applies == {After(deploy[i].v, "kubectl apply -f ") :
                         i \in {j \in 1..Len(deploy) : Starts(deploy[j].v, "kubectl apply -f ")}}
           Applied == {SubSeq(c, 1, IndexOf(c, " ") - 1) : c \in Applies}
           Written == {q \in DOMAIN fs.files : fs.files[q] # "earlier run"}
       IN /\ Read = {"k8s/deployment.yaml", "k8s/service.yaml"}
          /\ Rewritten \cup Applied = {"kubernetes/deployment.yaml", "kubernetes/service.yaml"}
          /\ Rewritten \cup Applied \subseteq Produced
          /\ \A r \in Read : PathJoin(ret.args[1], r) \in Written

====
